---- MODULE Spec2Model ----
(***************************************************************************)
(* Model of surfinBH/_fit_evaluators/fit_3dq8.py: the Fit3dq8 evaluator    *)
(* for the surfinBH3dq8 remnant fits.                                      *)
(*                                                                         *)
(* One invocation of Fit3dq8._eval_wrapper is modelled as a sequence of    *)
(* steps (pc): the range validator, the unused-keyword check, the scalar   *)
(* fit evaluations in source order, and the return.                        *)
(*                                                                         *)
(* Number representation.  Python floats are modelled as fixed-point       *)
(* integers.  q and the z components of the spins are in units of 1/One    *)
(* (One = 1000, so 8.01 is 8010 and 0.81 is 810).  The x and y components  *)
(* of the spins are in units of 1e-10 (so 1e-10 is 1, 1e-9 is 10 and 0.1   *)
(* is 10^9); they are only ever used by the in-plane check.                *)
(***************************************************************************)
EXTENDS Integers, Sequences, FiniteSets, TLC

VARIABLES pc, fit_key, q, chiA, chiB, kwargs, warned, error, calls, loc, result

vars == <<pc, fit_key, q, chiA, chiB, kwargs, warned, error, calls, loc, result>>

(***************************************************************************)
(* Bounds of the model                                                     *)
(***************************************************************************)
\* the scalar fit evaluator answers one of MaxFit (value, 1-sigma) pairs
MaxFit == 2

(***************************************************************************)
(* Float arithmetic (fixed point, truncating)                              *)
(***************************************************************************)
One == 1000

Abs(a) == IF a < 0 THEN -a ELSE a

FMul(a, b) == (a * b) \div One

FDiv(a, b) == (a * One) \div b

\* np.log for q >= 1: ln(q) = 2 * atanh((q-1)/(q+1)), summed until the
\* terms vanish in the fixed-point precision
RECURSIVE LogSeries(_, _, _)
LogSeries(z, pow, k) ==
    IF pow = 0 THEN 0
    ELSE (pow \div k) + LogSeries(z, FMul(FMul(pow, z), z), k + 2)

Log(x) == LET z == FDiv(x - One, x + One) IN 2 * LogSeries(z, z, 1)

(***************************************************************************)
(* Limits of _check_param_limits                                           *)
(***************************************************************************)
\* 1e-10, in the unit of the in-plane components
inplane_tol == 1
\* q < 1
q_min == 1000
\* q > 10.01
q_allowed == 10010
\* q > 8.01
q_train == 8010
\* abs(chi[2]) > 1.
chi_allowed == 1000
\* abs(chi[2]) > 0.81
chi_train == 810

(***************************************************************************)
(* Errors and warnings                                                     *)
(***************************************************************************)
NoError == [kind |-> "none", msg |-> "none"]

\* ValueError: structurally wrong input
ValueError(m) == [kind |-> "InvalidInput", msg |-> m]

\* Exception raised by the validator: outside the allowed range
RangeError(m) == [kind |-> "OutOfRange", msg |-> m]

\* Exception raised by _check_unused_kwargs
UnusedKwargsError == [kind |-> "UnsupportedOption", msg |-> "kwargs"]

(***************************************************************************)
(* _get_fit_params: [q, chiAz, chiBz] -> [np.log(q), chiHat, chi_a]        *)
(***************************************************************************)
eta_of(xq) == FDiv(xq, FMul(One + xq, One + xq))

chi_wtAvg_of(xq, chiAz, chiBz) == FDiv(FMul(xq, chiAz) + chiBz, One + xq)

chiHat_denom(xq) == One - FDiv(FMul(76 * One, eta_of(xq)), 113 * One)

chiHat_of(xq, chiAz, chiBz) ==
    FDiv(chi_wtAvg_of(xq, chiAz, chiBz)
            - FMul(FDiv(FMul(38 * One, eta_of(xq)), 113 * One), chiAz + chiBz),
         chiHat_denom(xq))

\* variant: the symmetric combination instead of the anti-symmetric one
chi_a_of_Sum(chiAz, chiBz) == FDiv(chiAz + chiBz, 2 * One)

chi_a_of(chiAz, chiBz) == FDiv(chiAz - chiBz, 2 * One)

_get_fit_params(x) ==
    <<Log(x[1]), chiHat_of(x[1], x[2], x[3]), chi_a_of(x[2], x[3])>>

(***************************************************************************)
(* _check_param_limits                                                     *)
(***************************************************************************)
\* variant: each component compared on its own, no magnitude
InPlaneExceeds_PerComponent(chi) ==
    \/ Abs(chi[1]) > inplane_tol
    \/ Abs(chi[2]) > inplane_tol

\* np.sqrt(np.sum(chi[:2]**2)) > 1e-10.  sqrt is monotone, so the test is
\* x^2 + y^2 > tol^2; a component that alone exceeds the tolerance decides
\* the test before the squares are formed.
InPlaneExceeds(chi) ==
    \/ Abs(chi[1]) > inplane_tol
    \/ Abs(chi[2]) > inplane_tol
    \/ chi[1] * chi[1] + chi[2] * chi[2] > inplane_tol * inplane_tol

\* variant: warns at the training limit itself
QWarnings_Inclusive(xq) == IF xq >= q_train THEN <<"q">> ELSE <<>>

\* warnings.warn of the q check
QWarnings(xq) == IF xq > q_train THEN <<"q">> ELSE <<>>

\* variant: the sign of the spin is not dropped
ChiWarnings_NoAbs(chi, name) == IF chi[3] > chi_train THEN <<name>> ELSE <<>>

\* warnings.warn of a spin check
ChiWarnings(chi, name) == IF Abs(chi[3]) > chi_train THEN <<name>> ELSE <<>>

\* variant: the spin checks run before the q check
_check_param_limits_SpinsFirst(xq, xchiA, xchiB) ==
    IF InPlaneExceeds(xchiA)
    THEN [warns |-> <<>>, err |-> ValueError("chiA_inplane")]
    ELSE IF InPlaneExceeds(xchiB)
    THEN [warns |-> <<>>, err |-> ValueError("chiB_inplane")]
    ELSE IF Abs(xchiA[3]) > chi_allowed
    THEN [warns |-> <<>>, err |-> RangeError("chiA")]
    ELSE LET w1 == ChiWarnings(xchiA, "chiA") IN
    IF Abs(xchiB[3]) > chi_allowed
    THEN [warns |-> w1, err |-> RangeError("chiB")]
    ELSE LET w2 == w1 \o ChiWarnings(xchiB, "chiB") IN
    IF xq < q_min
    THEN [warns |-> w2, err |-> ValueError("q")]
    ELSE IF xq > q_allowed
    THEN [warns |-> w2, err |-> RangeError("q")]
    ELSE [warns |-> w2 \o QWarnings(xq), err |-> NoError]

\* the outcome of the validator: the warnings emitted, in order, and the
\* error raised (NoError when it returns)
_check_param_limits(xq, xchiA, xchiB) ==
    IF InPlaneExceeds(xchiA)
    THEN [warns |-> <<>>, err |-> ValueError("chiA_inplane")]
    ELSE IF InPlaneExceeds(xchiB)
    THEN [warns |-> <<>>, err |-> ValueError("chiB_inplane")]
    ELSE IF xq < q_min
    THEN [warns |-> <<>>, err |-> ValueError("q")]
    ELSE IF xq > q_allowed
    THEN [warns |-> <<>>, err |-> RangeError("q")]
    ELSE LET w1 == QWarnings(xq) IN
    IF Abs(xchiA[3]) > chi_allowed
    THEN [warns |-> w1, err |-> RangeError("chiA")]
    ELSE LET w2 == w1 \o ChiWarnings(xchiA, "chiA") IN
    IF Abs(xchiB[3]) > chi_allowed
    THEN [warns |-> w2, err |-> RangeError("chiB")]
    ELSE [warns |-> w2 \o ChiWarnings(xchiB, "chiB"), err |-> NoError]

(***************************************************************************)
(* SurFinBH base class: _check_unused_kwargs, _evaluate_fits               *)
(***************************************************************************)
\* fails when any keyword argument is left
_check_unused_kwargs(kw) == IF kw # {} THEN UnusedKwargsError ELSE NoError

\* what a loaded scalar fit may answer: (value, 1-sigma error)
FitOutputs == {<<-s, s>> : s \in 1..MaxFit}

\* the record of one call of _evaluate_fits(x, key): the fit is evaluated
\* at _get_fit_params(x) and answers out
FitCall(x, key, out) ==
    [key |-> key, x |-> x, params |-> _get_fit_params(x), out |-> out]

(***************************************************************************)
(* Inputs                                                                  *)
(***************************************************************************)
FitKeys == {"mC", "chiC", "velC", "all"}

QGrid == {500, 1000, 4300, 8010, 8020, 9000, 10010, 10020, 11000}

InPlaneGrid == {<<0, 0>>, <<1, 0>>, <<0, -1>>, <<1, 1>>, <<10, 10>>, <<1000000000, 0>>}

ChiZGrid == {-1010, -1000, -820, -810, -700, 0, 500, 600, 810, 820, 1000, 1010}

ChiGrid == {<<p[1], p[2], z>> : p \in InPlaneGrid, z \in ChiZGrid}

KwargsGrid == {{}, {"foo"}}

(***************************************************************************)
(* State                                                                   *)
(***************************************************************************)
NoLocals ==
    [mC |-> 0, mC_err |-> 0,
     chiC |-> <<0, 0, 0>>, chiC_err |-> <<0, 0, 0>>,
     velCx |-> 0, velCx_err |-> 0,
     velC |-> <<0, 0, 0>>, velC_err |-> <<0, 0, 0>>]

Init ==
    /\ pc = "idle"
    /\ fit_key = "mC"
    /\ q = One
    /\ chiA = <<0, 0, 0>>
    /\ chiB = <<0, 0, 0>>
    /\ kwargs = {}
    /\ warned = <<>>
    /\ error = NoError
    /\ calls = <<>>
    /\ loc = NoLocals
    /\ result = <<>>

\* x = [q, chiA[2], chiB[2]]
X == <<q, chiA[3], chiB[3]>>

(***************************************************************************)
(* _eval_wrapper, step by step                                             *)
(***************************************************************************)
\* fit.mC / fit.chiC / fit.velC / fit.all (q, chiA, chiB, **kwargs):
\* enters _eval_wrapper; chiA = np.array(chiA), chiB = np.array(chiB)
Invoke ==
    /\ pc = "idle"
    /\ \E k \in FitKeys, xq \in QGrid, a \in ChiGrid, b \in ChiGrid,
          kw \in KwargsGrid :
          /\ fit_key' = k
          /\ q' = xq
          /\ chiA' = a
          /\ chiB' = b
          /\ kwargs' = kw
    /\ pc' = "check_limits"
    /\ warned' = <<>>
    /\ error' = NoError
    /\ calls' = <<>>
    /\ loc' = NoLocals
    /\ result' = <<>>

\* variant: the validator only warns, its error is not raised
CheckParamLimits_WarnOnly ==
    /\ pc = "check_limits"
    /\ warned' = warned \o _check_param_limits(q, chiA, chiB).warns
    /\ pc' = "check_kwargs"
    /\ UNCHANGED <<fit_key, q, chiA, chiB, kwargs, error, calls, loc, result>>

\* variant: the keyword arguments are checked before the limits
CheckParamLimits_OptionsFirst ==
    /\ pc = "check_limits"
    /\ LET out == _check_param_limits(q, chiA, chiB) IN
          IF kwargs # {}
          THEN /\ warned' = warned
               /\ error' = UnusedKwargsError
               /\ pc' = "raised"
          ELSE /\ warned' = warned \o out.warns
               /\ error' = out.err
               /\ pc' = IF out.err = NoError THEN "check_kwargs" ELSE "raised"
    /\ UNCHANGED <<fit_key, q, chiA, chiB, kwargs, calls, loc, result>>

\* self._check_param_limits(q, chiA, chiB, **kwargs)
CheckParamLimits ==
    /\ pc = "check_limits"
    /\ LET out == _check_param_limits(q, chiA, chiB) IN
          /\ warned' = warned \o out.warns
          /\ error' = out.err
          /\ pc' = IF out.err = NoError THEN "check_kwargs" ELSE "raised"
    /\ UNCHANGED <<fit_key, q, chiA, chiB, kwargs, calls, loc, result>>

\* where control goes after the mC block
AfterMC(k) ==
    IF k \in {"chiC", "all"} THEN "eval_chiCz"
    ELSE IF k \in {"velC", "all"} THEN "eval_velCx"
    ELSE "returned"

\* where control goes after the unused-keyword check
AfterKwargs(k) == IF k \in {"mC", "all"} THEN "eval_mC" ELSE AfterMC(k)

\* where control goes after the chiC block
AfterChiC(k) ==
    IF k \in {"velC", "all"} THEN "eval_velCx"
    ELSE IF k = "all" THEN "return_all"
    ELSE "returned"

\* where control goes after the velC block
AfterVelC(k) == IF k = "all" THEN "return_all" ELSE "returned"

\* variant: the keyword arguments are never checked
CheckUnusedKwargs_Skipped ==
    /\ pc = "check_kwargs"
    /\ pc' = AfterKwargs(fit_key)
    /\ UNCHANGED <<fit_key, q, chiA, chiB, kwargs, warned, error, calls, loc, result>>

\* self._check_unused_kwargs(kwargs)
CheckUnusedKwargs ==
    /\ pc = "check_kwargs"
    /\ error' = _check_unused_kwargs(kwargs)
    /\ pc' = IF error' = NoError THEN AfterKwargs(fit_key) ELSE "raised"
    /\ UNCHANGED <<fit_key, q, chiA, chiB, kwargs, warned, calls, loc, result>>

\* mC, mC_err = self._evaluate_fits(x, 'mC'); return when fit_key == 'mC'
EvalMC ==
    /\ pc = "eval_mC"
    /\ \E out \in FitOutputs :
          /\ calls' = Append(calls, FitCall(X, "mC", out))
          /\ loc' = [loc EXCEPT !.mC = out[1], !.mC_err = out[2]]
          /\ IF fit_key = "mC"
             THEN /\ result' = <<out[1], out[2]>>
                  /\ pc' = "returned"
             ELSE /\ result' = result
                  /\ pc' = AfterMC(fit_key)
    /\ UNCHANGED <<fit_key, q, chiA, chiB, kwargs, warned, error>>

\* chiCz, chiCz_err = self._evaluate_fits(x, 'chiCz');
\* chiC = [0,0,chiCz]; chiC_err = [0,0,chiCz_err]; return when 'chiC'
EvalChiC ==
    /\ pc = "eval_chiCz"
    /\ \E out \in FitOutputs :
          /\ calls' = Append(calls, FitCall(X, "chiCz", out))
          /\ loc' = [loc EXCEPT !.chiC = <<0, 0, out[1]>>,
                                !.chiC_err = <<0, 0, out[2]>>]
          /\ IF fit_key = "chiC"
             THEN /\ result' = <<loc'.chiC, loc'.chiC_err>>
                  /\ pc' = "returned"
             ELSE /\ result' = result
                  /\ pc' = AfterChiC(fit_key)
    /\ UNCHANGED <<fit_key, q, chiA, chiB, kwargs, warned, error>>

\* velCx, velCx_err = self._evaluate_fits(x, 'velCx')
EvalVelCx ==
    /\ pc = "eval_velCx"
    /\ \E out \in FitOutputs :
          /\ calls' = Append(calls, FitCall(X, "velCx", out))
          /\ loc' = [loc EXCEPT !.velCx = out[1], !.velCx_err = out[2]]
    /\ pc' = "eval_velCy"
    /\ UNCHANGED <<fit_key, q, chiA, chiB, kwargs, warned, error, result>>

\* variant: the second kick component is read from the velCx fit again
EvalVelCy_Repeat ==
    /\ pc = "eval_velCy"
    /\ \E out \in FitOutputs :
          /\ calls' = Append(calls, FitCall(X, "velCx", out))
          /\ loc' = [loc EXCEPT !.velC = <<loc.velCx, out[1], 0>>,
                                !.velC_err = <<loc.velCx_err, out[2], 0>>]
          /\ IF fit_key = "velC"
             THEN /\ result' = <<loc'.velC, loc'.velC_err>>
                  /\ pc' = "returned"
             ELSE /\ result' = result
                  /\ pc' = AfterVelC(fit_key)
    /\ UNCHANGED <<fit_key, q, chiA, chiB, kwargs, warned, error>>

\* velCy, velCy_err = self._evaluate_fits(x, 'velCy');
\* velC = [velCx, velCy, 0]; velC_err = [velCx_err, velCy_err, 0];
\* return when 'velC'
EvalVelCy ==
    /\ pc = "eval_velCy"
    /\ \E out \in FitOutputs :
          /\ calls' = Append(calls, FitCall(X, "velCy", out))
          /\ loc' = [loc EXCEPT !.velC = <<loc.velCx, out[1], 0>>,
                                !.velC_err = <<loc.velCx_err, out[2], 0>>]
          /\ IF fit_key = "velC"
             THEN /\ result' = <<loc'.velC, loc'.velC_err>>
                  /\ pc' = "returned"
             ELSE /\ result' = result
                  /\ pc' = AfterVelC(fit_key)
    /\ UNCHANGED <<fit_key, q, chiA, chiB, kwargs, warned, error>>

\* variant: the errors are returned before the values
ReturnAll_ErrorsFirst ==
    /\ pc = "return_all"
    /\ result' = <<loc.mC_err, loc.chiC_err, loc.velC_err,
                   loc.mC, loc.chiC, loc.velC>>
    /\ pc' = "returned"
    /\ UNCHANGED <<fit_key, q, chiA, chiB, kwargs, warned, error, calls, loc>>

\* return mC, chiC, velC, mC_err, chiC_err, velC_err
ReturnAll ==
    /\ pc = "return_all"
    /\ result' = <<loc.mC, loc.chiC, loc.velC,
                   loc.mC_err, loc.chiC_err, loc.velC_err>>
    /\ pc' = "returned"
    /\ UNCHANGED <<fit_key, q, chiA, chiB, kwargs, warned, error, calls, loc>>

\* the caller has the result or the exception; the object keeps no state
Finish ==
    /\ pc \in {"returned", "raised"}
    /\ pc' = "idle"
    /\ fit_key' = "mC"
    /\ q' = One
    /\ chiA' = <<0, 0, 0>>
    /\ chiB' = <<0, 0, 0>>
    /\ kwargs' = {}
    /\ warned' = <<>>
    /\ error' = NoError
    /\ calls' = <<>>
    /\ loc' = NoLocals
    /\ result' = <<>>

Next ==
    \/ Invoke
    \/ CheckParamLimits
    \/ CheckUnusedKwargs
    \/ EvalMC
    \/ EvalChiC
    \/ EvalVelCx
    \/ EvalVelCy
    \/ ReturnAll
    \/ Finish

Spec == Init /\ [][Next]_vars

(***************************************************************************)
(* Properties                                                              *)
(***************************************************************************)
\* the validator has run in the current invocation
Validated == pc \notin {"idle", "check_limits"}

\* the invocation has ended
Ended == pc \in {"returned", "raised"}

\* the integer points of the disc of radius 1e-10 (in-plane unit)
WithinTol(chi) == <<chi[1], chi[2]>> \in
    {<<0, 0>>, <<1, 0>>, <<-1, 0>>, <<0, 1>>, <<0, -1>>}

\* the hard limits, stated from the documented ranges
HardA == ~WithinTol(chiA)
HardB == ~WithinTol(chiB)
HardQLow == q < 1000
HardQHigh == q > 10010
HardAz == chiA[3] > 1000 \/ chiA[3] < -1000
HardBz == chiB[3] > 1000 \/ chiB[3] < -1000
HardViolation == HardA \/ HardB \/ HardQLow \/ HardQHigh \/ HardAz \/ HardBz

\* the warning bands
BandQ == q > 8010 /\ q <= 10010
BandAz == (chiA[3] > 810 /\ chiA[3] <= 1000) \/ (chiA[3] < -810 /\ chiA[3] >= -1000)
BandBz == (chiB[3] > 810 /\ chiB[3] <= 1000) \/ (chiB[3] < -810 /\ chiB[3] >= -1000)
InBand(name) ==
    IF name = "q" THEN BandQ ELSE IF name = "chiA" THEN BandAz ELSE BandBz
BandWarnings == SelectSeq(<<"q", "chiA", "chiB">>, InBand)

ValidatorError == error.kind \in {"InvalidInput", "OutOfRange"}

\* C1: on every input with a hard range violation, for every selector, the
\* call is raised out of the validator with no evaluator call made and no
\* result returned.
C1_NoEvaluatorCallOnRangeFailure ==
    (Validated /\ HardViolation) =>
        /\ pc = "raised"
        /\ ValidatorError
        /\ Len(calls) = 0
        /\ result = <<>>

C1_Witness ==
    /\ pc = "raised"
    /\ fit_key = "all"
    /\ kwargs = {}
    /\ HardBz /\ ~HardA /\ ~HardB /\ ~HardQLow /\ ~HardQHigh /\ ~HardAz
    /\ Len(calls) = 0

\* C2 (as stated): a call carrying an unsupported option ends with
\* UnsupportedOption and zero evaluator calls.
C2_UnsupportedOptionAlways ==
    (Ended /\ kwargs # {}) =>
        /\ error.kind = "UnsupportedOption"
        /\ Len(calls) = 0

\* C2 (amended): a call carrying an unsupported option always fails with zero
\* evaluator calls and no result; the error is UnsupportedOption exactly when
\* the input passes the range validator, and the validator's error otherwise.
C2_UnsupportedOptionWhenValid ==
    (Ended /\ kwargs # {}) =>
        /\ pc = "raised"
        /\ Len(calls) = 0
        /\ result = <<>>
        /\ (error.kind = "UnsupportedOption") <=> ~HardViolation
        /\ HardViolation => ValidatorError

C2_Witness ==
    /\ pc = "raised"
    /\ kwargs = {"foo"}
    /\ fit_key = "all"
    /\ error.kind = "UnsupportedOption"
    /\ Len(calls) = 0

\* the checks of the validator in their documented order
CheckOrder == <<"chiA_inplane", "chiB_inplane", "q", "chiA", "chiB">>

HardAt(i) ==
    IF i = 1 THEN HardA
    ELSE IF i = 2 THEN HardB
    ELSE IF i = 3 THEN HardQLow \/ HardQHigh
    ELSE IF i = 4 THEN HardAz
    ELSE HardBz

KindAt(i) ==
    IF i \in {1, 2} THEN "InvalidInput"
    ELSE IF i = 3 /\ HardQLow THEN "InvalidInput"
    ELSE "OutOfRange"

\* the training-range warnings of the checks before check i
RECURSIVE WarningsBefore(_)
WarningsBefore(i) ==
    IF i <= 1 THEN <<>>
    ELSE WarningsBefore(i - 1) \o
         (IF i - 1 = 3 /\ BandQ THEN <<"q">>
          ELSE IF i - 1 = 4 /\ BandAz THEN <<"chiA">>
          ELSE IF i - 1 = 5 /\ BandBz THEN <<"chiB">>
          ELSE <<>>)

FirstHard == CHOOSE i \in 1..5 : HardAt(i) /\ \A j \in 1..(i - 1) : ~HardAt(j)

\* C3: the validator fails at the earliest violated check in the order chiA
\* in-plane, chiB in-plane, q, chiA[z], chiB[z]; the warnings emitted are
\* exactly those of the checks preceding the failing one.
C3_FirstViolationWins ==
    (Validated /\ HardViolation) =>
        /\ error.msg = CheckOrder[FirstHard]
        /\ error.kind = KindAt(FirstHard)
        /\ warned = WarningsBefore(FirstHard)

C3_Witness ==
    /\ pc = "raised"
    /\ BandQ /\ HardAz /\ HardBz
    /\ error.msg = "chiA"
    /\ warned = <<"q">>

\* aligned spins inside the training range
AlignedInTraining ==
    /\ chiA[1] = 0 /\ chiA[2] = 0 /\ chiB[1] = 0 /\ chiB[2] = 0
    /\ chiA[3] <= 810 /\ chiA[3] >= -810
    /\ chiB[3] <= 810 /\ chiB[3] >= -810

\* C4: with aligned spins inside the training range, q < 1 fails with
\* InvalidInput, q > 10.01 fails with OutOfRange, 8.01 < q <= 10.01 passes
\* with exactly one warning and 1 <= q <= 8.01 passes with none.
C4_QClassification ==
    (Validated /\ AlignedInTraining) =>
        /\ q < 1000 => (pc = "raised" /\ error = ValueError("q") /\ warned = <<>>)
        /\ q > 10010 => (pc = "raised" /\ error = RangeError("q") /\ warned = <<>>)
        /\ (q > 8010 /\ q <= 10010) => (~ValidatorError /\ warned = <<"q">>)
        /\ (q >= 1000 /\ q <= 8010) => (~ValidatorError /\ warned = <<>>)
        /\ q \in {1000, 8010, 10010} => ~ValidatorError
        /\ q = 500 => error.kind = "InvalidInput"
        /\ q = 9000 => (~ValidatorError /\ Len(warned) = 1)
        /\ q = 11000 => error.kind = "OutOfRange"

C4_Witness ==
    /\ pc = "returned"
    /\ AlignedInTraining
    /\ q = 9000
    /\ warned = <<"q">>

\* the number of the parameters q, chiA[z], chiB[z] in their warning band
NumInBand ==
    (IF BandQ THEN 1 ELSE 0) + (IF BandAz THEN 1 ELSE 0) + (IF BandBz THEN 1 ELSE 0)

\* the spin with its z component negated
Flip(chi) == <<chi[1], chi[2], -chi[3]>>

\* the evaluator channels a selector needs, in source order
ChannelsOf(k) ==
    IF k = "mC" THEN <<"mC">>
    ELSE IF k = "chiC" THEN <<"chiCz">>
    ELSE IF k = "velC" THEN <<"velCx", "velCy">>
    ELSE <<"mC", "chiCz", "velCx", "velCy">>

CallKeys == [i \in 1..Len(calls) |-> calls[i].key]

\* the input reaches the spin checks
ReachesSpinChecks == ~HardA /\ ~HardB /\ ~HardQLow /\ ~HardQHigh

IsPrefix(s, t) == Len(s) <= Len(t) /\ \A i \in 1..Len(s) : s[i] = t[i]

\* C6: the evaluator calls of an invocation are those of its selector, in
\* source order, each with the input triple (q, chiA[z], chiB[z]) and the fit
\* coordinates of that triple; a returned call has made exactly all of them.
C6_CallSequenceBySelector ==
    /\ IsPrefix(CallKeys, ChannelsOf(fit_key))
    /\ \A i \in 1..Len(calls) :
            /\ calls[i].x = <<q, chiA[3], chiB[3]>>
            /\ calls[i].params = calls[1].params
    /\ \A i, j \in 1..Len(calls) : calls[i].key = calls[j].key => i = j
    /\ pc = "returned" => CallKeys = ChannelsOf(fit_key)
    /\ (pc = "returned" /\ fit_key = "all") => Len(calls) = 4

C6_Witness ==
    /\ pc = "returned"
    /\ fit_key = "all"
    /\ CallKeys = <<"mC", "chiCz", "velCx", "velCy">>
    /\ q = 4300 /\ chiA[3] = 600 /\ chiB[3] = -700

\* what the evaluator answered for a channel in this invocation
OutOf(key) == (CHOOSE c \in {calls[i] : i \in 1..Len(calls)} : c.key = key).out

MassValue == <<OutOf("mC")[1], OutOf("mC")[2]>>
SpinValue == <<<<0, 0, OutOf("chiCz")[1]>>, <<0, 0, OutOf("chiCz")[2]>>>>
KickValue == <<<<OutOf("velCx")[1], OutOf("velCy")[1], 0>>,
               <<OutOf("velCx")[2], OutOf("velCy")[2], 0>>>>

\* C7: mass returns (mC, mC_err), spin (0,0,chiCz) with (0,0,chiCz_err), kick
\* (velCx,velCy,0) with (velCx_err,velCy_err,0), and all the 6-tuple of these
\* in the order mass, spin, kick, mass_err, spin_err, kick_err.
C7_AssembledResult ==
    pc = "returned" =>
        /\ fit_key = "mC" => result = MassValue
        /\ fit_key = "chiC" => result = SpinValue
        /\ fit_key = "velC" => result = KickValue
        /\ fit_key = "all" =>
              result = <<MassValue[1], SpinValue[1], KickValue[1],
                         MassValue[2], SpinValue[2], KickValue[2]>>
        /\ fit_key \in {"chiC", "all"} =>
              LET sp == IF fit_key = "all" THEN <<result[2], result[5]>> ELSE result
              IN  \A i \in 1..2 : sp[i][1] = 0 /\ sp[i][2] = 0
        /\ fit_key \in {"velC", "all"} =>
              LET ki == IF fit_key = "all" THEN <<result[3], result[6]>> ELSE result
              IN  \A i \in 1..2 : ki[i][3] = 0

C7_Witness ==
    /\ pc = "returned"
    /\ fit_key = "all"
    /\ Len(result) = 6
    /\ OutOf("velCx") # OutOf("velCy")
    /\ OutOf("mC") # OutOf("chiCz")

\* the inputs of the in-plane examples: chiB aligned, q and both z inside
\* the training range
InPlaneExample(xy) ==
    /\ Validated
    /\ <<chiA[1], chiA[2]>> = xy /\ chiA[3] = 500
    /\ chiB[1] = 0 /\ chiB[2] = 0 /\ ~HardBz
    /\ ~HardQLow /\ ~HardQHigh

\* C8 (as stated): chiA = [1e-9, 1e-9, 0.5] passes the in-plane check.
C8_SmallInPlanePasses ==
    InPlaneExample(<<10, 10>>) => error.msg # "chiA_inplane"

\* C8 (amended): chiA = [1e-9, 1e-9, 0.5] and chiA = [0.1, 0, 0.5] both fail
\* with InvalidInput; the in-plane check fails exactly when the magnitude
\* sqrt(x^2 + y^2) of the spin is above 1e-10, chiA before chiB.
C8_InPlaneThreshold ==
    /\ InPlaneExample(<<10, 10>>) => (pc = "raised" /\ error = ValueError("chiA_inplane"))
    /\ InPlaneExample(<<1000000000, 0>>) => (pc = "raised" /\ error = ValueError("chiA_inplane"))
    /\ Validated =>
          /\ (error.msg = "chiA_inplane") <=> ~WithinTol(chiA)
          /\ (error.msg = "chiB_inplane") <=> (WithinTol(chiA) /\ ~WithinTol(chiB))
          /\ error.msg \in {"chiA_inplane", "chiB_inplane"} =>
                (pc = "raised" /\ error.kind = "InvalidInput")

C8_Witness ==
    /\ InPlaneExample(<<10, 10>>)
    /\ pc = "raised"
    /\ error = ValueError("chiA_inplane")

\* C9: the fit coordinates are [logQ, chiHat, chiAnti] in that order with
\* chiAnti = (chiAz - chiBz)/2; q = 1 with both spins zero maps to (0, 0, 0);
\* the chiHat denominator is strictly positive on every validated input.
C9_FitCoordinates ==
    \A i \in 1..Len(calls) :
        LET p == calls[i].params IN
        /\ Len(p) = 3
        /\ 2 * p[3] = chiA[3] - chiB[3]
        /\ (p[1] = 0) <=> (q = 1000)
        /\ q > 1000 => (p[1] > 0 /\ p[1] < q - 1000)
        /\ chiA[3] = chiB[3] => (p[3] = 0 /\ p[2] >= chiA[3] - 2 /\ p[2] <= chiA[3] + 2)
        /\ (q = 1000 /\ chiA[3] = 0 /\ chiB[3] = 0) => p = <<0, 0, 0>>
        /\ chiHat_denom(q) > 0
        /\ 4 * eta_of(q) <= 1000

C9_Witness ==
    /\ Len(calls) > 0
    /\ q = 1000 /\ chiA[3] = 0 /\ chiB[3] = 0
    /\ calls[1].params = <<0, 0, 0>>

\* C10: the validator runs to completion before the unused-option check and
\* both before the first evaluator call; with an unrecognized option, a hard
\* range violation yields the validator's error, and a valid input yields its
\* training-range warnings followed by UnsupportedOption.
C10_ValidatorBeforeOptionCheck ==
    /\ pc = "check_kwargs" =>
          (~HardViolation /\ warned = BandWarnings /\ Len(calls) = 0)
    /\ Len(calls) > 0 => (~HardViolation /\ kwargs = {} /\ error = NoError)
    /\ (pc = "raised" /\ kwargs # {} /\ HardViolation) => ValidatorError
    /\ (pc = "raised" /\ kwargs # {} /\ ~HardViolation) =>
          (error = UnusedKwargsError /\ warned = BandWarnings)

C10_Witness ==
    /\ pc = "raised"
    /\ kwargs = {"foo"}
    /\ error = UnusedKwargsError
    /\ warned = <<"q", "chiB">>
====
